---- MODULE Spec2Model ----
(***************************************************************************)
(* Model of the clause concatenation engine of sql_query_builder: the      *)
(* Insert builder (src/src/insert/insert.rs) and the DROP INDEX assembler  *)
(* (src/src/drop_index/drop_index_internal.rs).                            *)
(*                                                                         *)
(* Text is a sequence of one-character strings, so that trimming, joining  *)
(* and concatenation are computed rather than assumed.  A keyword the      *)
(* assembler writes is one element of the sequence: nothing looks inside   *)
(* it.                                                                     *)
(***************************************************************************)
EXTENDS Integers, Sequences, FiniteSets

VARIABLES
  kind,      \* which statement the chain builds: "Insert" or "DropIndex"
  dialect,   \* the cargo feature the crate was built with
  ins,       \* the Insert value being built
  dix,       \* the DropIndex value being built
  hist,      \* the chain of calls made so far, oldest first
  out,       \* what the last as_string() returned
  console    \* what the last debug() / print() wrote to standard output

vars == <<kind, dialect, ins, dix, hist, out, console>>

\* ------------------------------------------------------------------ bounds

MaxCalls == 3

\* ------------------------------------------------------------------ text

Blank == {" ", "\n", "\t"}

RECURSIVE trim_start(_)
trim_start(s) ==
  IF s = <<>> THEN <<>>
  ELSE IF Head(s) \in Blank THEN trim_start(Tail(s)) ELSE s

RECURSIVE trim_end(_)
trim_end(s) ==
  IF s = <<>> THEN <<>>
  ELSE IF s[Len(s)] \in Blank THEN trim_end(SubSeq(s, 1, Len(s) - 1)) ELSE s

trim(s) == trim_end(trim_start(s))

RECURSIVE join(_, _)
join(items, sep) ==
  IF items = <<>> THEN <<>>
  ELSE IF Len(items) = 1 THEN items[1]
  ELSE items[1] \o sep \o join(Tail(items), sep)

RECURSIVE filter_non_empty(_)
filter_non_empty(items) ==
  IF items = <<>> THEN <<>>
  ELSE IF Head(items) = <<>> THEN filter_non_empty(Tail(items))
  ELSE <<Head(items)>> \o filter_non_empty(Tail(items))

Contains(items, x) == \E i \in 1..Len(items) : items[i] = x

\* ------------------------------------------------------------------ formatter

one_line ==
  [comma |-> <<",", " ">>, lb |-> <<>>, space |-> <<" ">>, indent |-> <<>>]

multiline ==
  [comma |-> <<",", " ">>, lb |-> <<"\n">>, space |-> <<" ">>, indent |-> <<"\t">>]

\* One-line output: every run of blanks (line breaks included) becomes one
\* space.  Multi-line output keeps the line terminators the assembler wrote.
RECURSIVE collapse(_)
collapse(s) ==
  IF s = <<>> THEN <<>>
  ELSE IF Head(s) \in Blank
       THEN <<" ">> \o collapse(trim_start(s))
       ELSE <<Head(s)>> \o collapse(Tail(s))

format(text, fmts) == IF fmts.lb = <<>> THEN collapse(text) ELSE text

\* ------------------------------------------------------------------ keywords

KwInsertInto  == << "INSERT INTO" >>
KwInsertOr    == << "INSERT OR" >>
KwReplaceInto == << "REPLACE INTO" >>
KwValues      == << "VALUES" >>
KwOnConflict  == << "ON CONFLICT" >>
KwOverriding  == << "OVERRIDING" >>
KwReturning   == << "RETURNING" >>
KwDropIndex   == << "DROP INDEX" >>
KwIfExists    == << "IF EXISTS" >>

\* ------------------------------------------------------------------ shared engine

\* behavior::push_unique, with the accumulator contract of the multi-valued
\* clauses: an empty entry is rejected, a present one is not appended again.
push_unique(list, value) ==
  IF value = <<>> \/ Contains(list, value) THEN list ELSE Append(list, value)

RECURSIVE raw_queries(_, _)
raw_queries(items, clause) ==
  IF items = <<>> THEN <<>>
  ELSE IF Head(items)[1] = clause
       THEN <<Head(items)[2]>> \o raw_queries(Tail(items), clause)
       ELSE raw_queries(Tail(items), clause)

concat_raw_before_after(items_before, items_after, query, fmts, clause, sql) ==
  LET raw_before   == join(raw_queries(items_before, clause), fmts.space)
      raw_after    == join(raw_queries(items_after, clause), fmts.space)
      space_before == IF raw_before # <<>> THEN fmts.space ELSE <<>>
      space_after  == IF raw_after # <<>> THEN fmts.space ELSE <<>>
  IN  query \o raw_before \o space_before \o sql \o raw_after \o space_after

concat_raw(query, fmts, items) ==
  IF items = <<>> THEN query
  ELSE query \o join(items, fmts.space) \o fmts.space \o fmts.lb

\* ------------------------------------------------------------------ Insert

Dialects == {"standard", "postgresql", "sqlite"}

\* InsertClause members that raw_before / raw_after are called with
InsertClauses == {"InsertInto", "Values"}

\* Arguments the builder methods are called with.  A VALUES entry or index
\* name is padded, plain or blank; a table is one of two; the other
\* multi-valued clauses and the injections get a padded text or a blank one;
\* the remaining clauses get one text each.
Texts == { <<" ", "a", " ">>, <<"b">>, <<" ">> }
Tables == { <<" ", "a", " ">>, <<"b">> }
Fragments == { <<" ", "a", " ">>, <<" ">> }
Conflicts == { <<" ", "c">> }
Options == { <<"o", " ">> }
Expressions == { <<" ", "e">> }

\* faulty variant of new: the VALUES list starts with one blank entry
new_blank_value ==
  [ _default_values |-> FALSE,
    _insert         |-> <<"InsertInto", <<>>>>,
    _insert_into    |-> <<>>,
    _on_conflict    |-> <<>>,
    _overriding     |-> <<>>,
    _raw            |-> <<>>,
    _raw_after      |-> <<>>,
    _raw_before     |-> <<>>,
    _returning      |-> <<>>,
    _values         |-> << <<>> >> ]

\* Insert::default(); _select and _with hold other statement kinds and are
\* left out.
new ==
  [ _default_values |-> FALSE,
    _insert         |-> <<"InsertInto", <<>>>>,
    _insert_into    |-> <<>>,
    _on_conflict    |-> <<>>,
    _overriding     |-> <<>>,
    _raw            |-> <<>>,
    _raw_after      |-> <<>>,
    _raw_before     |-> <<>>,
    _returning      |-> <<>>,
    _values         |-> <<>> ]

\* faulty variants of insert_into: one rebuilds the value from the default,
\* one accumulates like a multi-valued clause
insert_into_reset(self, table_name) ==
  [new EXCEPT !._insert_into = trim(table_name)]

insert_into_append(self, table_name) ==
  [self EXCEPT !._insert_into =
     IF self._insert_into = <<>> THEN trim(table_name)
     ELSE self._insert_into \o <<",", " ">> \o trim(table_name)]

insert_into(self, table_name) ==
  [self EXCEPT !._insert_into = trim(table_name)]

insert_into_sqlite(self, expression) ==
  [self EXCEPT !._insert = <<"InsertInto", trim(expression)>>]

insert_or(self, expression) ==
  [self EXCEPT !._insert = <<"InsertOr", trim(expression)>>]

replace_into(self, expression) ==
  [self EXCEPT !._insert = <<"ReplaceInto", trim(expression)>>]

default_values(self) == [self EXCEPT !._default_values = TRUE]

on_conflict(self, conflict) == [self EXCEPT !._on_conflict = trim(conflict)]

overriding(self, option) == [self EXCEPT !._overriding = trim(option)]

raw(self, raw_sql) ==
  [self EXCEPT !._raw = push_unique(self._raw, trim(raw_sql))]

raw_after(self, clause, raw_sql) ==
  [self EXCEPT !._raw_after = Append(self._raw_after, <<clause, trim(raw_sql)>>)]

\* faulty variant of raw_before: suppresses a repeated injection, as raw does
raw_before_unique(self, clause, raw_sql) ==
  [self EXCEPT !._raw_before = push_unique(self._raw_before, <<clause, trim(raw_sql)>>)]

raw_before(self, clause, raw_sql) ==
  [self EXCEPT !._raw_before = Append(self._raw_before, <<clause, trim(raw_sql)>>)]

\* faulty variants of values: last-write-wins, no duplicate check, no
\* rejection of a blank value
values_override(self, value) ==
  [self EXCEPT !._values = IF trim(value) = <<>> THEN <<>> ELSE <<trim(value)>>]

values_no_dedup(self, value) ==
  [self EXCEPT !._values =
     IF trim(value) = <<>> THEN self._values ELSE Append(self._values, trim(value))]

values_keep_blank(self, value) ==
  [self EXCEPT !._values =
     IF Contains(self._values, trim(value)) THEN self._values
     ELSE Append(self._values, trim(value))]

values(self, value) ==
  [self EXCEPT !._values = push_unique(self._values, trim(value))]

returning(self, output_name) ==
  [self EXCEPT !._returning = push_unique(self._returning, trim(output_name))]

\* --- the assembler of Insert: the fixed clause order and one segment per clause

concat_insert_into(self, d, query, fmts) ==
  LET kw  == CASE self._insert[1] = "InsertInto"  -> KwInsertInto
               [] self._insert[1] = "InsertOr"    -> KwInsertOr
               [] self._insert[1] = "ReplaceInto" -> KwReplaceInto
      sql == IF d = "sqlite"
             THEN IF self._insert[2] # <<>>
                  THEN kw \o fmts.space \o self._insert[2] \o fmts.space \o fmts.lb
                  ELSE <<>>
             ELSE IF self._insert_into # <<>>
                  THEN KwInsertInto \o fmts.space \o self._insert_into
                         \o fmts.space \o fmts.lb
                  ELSE <<>>
  IN  concat_raw_before_after(self._raw_before, self._raw_after, query, fmts,
                              "InsertInto", sql)

concat_values(self, query, fmts) ==
  LET sql == IF self._values # <<>>
             THEN KwValues \o fmts.space
                    \o join(filter_non_empty(self._values), fmts.comma)
                    \o fmts.space \o fmts.lb
             ELSE <<>>
  IN  concat_raw_before_after(self._raw_before, self._raw_after, query, fmts,
                              "Values", sql)

concat_on_conflict(self, query, fmts) ==
  LET sql == IF self._on_conflict # <<>>
             THEN KwOnConflict \o fmts.space \o self._on_conflict
                    \o fmts.space \o fmts.lb
             ELSE <<>>
  IN  concat_raw_before_after(self._raw_before, self._raw_after, query, fmts,
                              "OnConflict", sql)

concat_overriding(self, query, fmts) ==
  LET sql == IF self._overriding # <<>>
             THEN KwOverriding \o fmts.space \o self._overriding
                    \o fmts.space \o fmts.lb
             ELSE <<>>
  IN  concat_raw_before_after(self._raw_before, self._raw_after, query, fmts,
                              "Overriding", sql)

concat_returning(self, query, fmts) ==
  LET sql == IF self._returning # <<>>
             THEN KwReturning \o fmts.space
                    \o join(filter_non_empty(self._returning), fmts.comma)
                    \o fmts.space \o fmts.lb
             ELSE <<>>
  IN  concat_raw_before_after(self._raw_before, self._raw_after, query, fmts,
                              "Returning", sql)

concat(self, d, fmts) ==
  LET q0 == concat_raw(<<>>, fmts, self._raw)
      q1 == concat_insert_into(self, d, q0, fmts)
      q2 == concat_values(self, q1, fmts)
      q3 == concat_on_conflict(self, q2, fmts)
      q4 == IF d # "sqlite" THEN concat_overriding(self, q3, fmts) ELSE q3
      q5 == IF d # "standard" THEN concat_returning(self, q4, fmts) ELSE q4
  IN  trim_end(q5)

as_string(self, d) == concat(self, d, one_line)

\* what debug() and print() write to standard output
debug(self, d) == format(concat(self, d, multiline), multiline)

print(self, d) == format(concat(self, d, one_line), one_line)

\* ------------------------------------------------------------------ DropIndex

\* DropIndex::default()
drop_index_new ==
  [ _drop_index |-> <<>>,
    _if_exists  |-> FALSE,
    _raw        |-> <<>>,
    _raw_after  |-> <<>>,
    _raw_before |-> <<>> ]

drop_index(self, index_name) ==
  [self EXCEPT !._drop_index = push_unique(self._drop_index, trim(index_name))]

drop_index_if_exists(self, index_name) ==
  [self EXCEPT !._drop_index = push_unique(self._drop_index, trim(index_name)),
               !._if_exists = TRUE]

drop_index_raw(self, raw_sql) ==
  [self EXCEPT !._raw = push_unique(self._raw, trim(raw_sql))]

drop_index_raw_after(self, clause, raw_sql) ==
  [self EXCEPT !._raw_after = Append(self._raw_after, <<clause, trim(raw_sql)>>)]

drop_index_raw_before(self, clause, raw_sql) ==
  [self EXCEPT !._raw_before = Append(self._raw_before, <<clause, trim(raw_sql)>>)]

\* faulty variant of concat_drop_index: no dialect gate, every name is rendered
concat_drop_index_all(self, d, query, fmts) ==
  LET sql ==
        IF self._drop_index # <<>>
        THEN LET if_exists == IF self._if_exists
                              THEN KwIfExists \o fmts.space
                              ELSE <<>>
                 index_names == join(filter_non_empty(self._drop_index), fmts.comma)
             IN  KwDropIndex \o fmts.space \o if_exists \o index_names
                   \o fmts.space \o fmts.lb
        ELSE <<>>
  IN  concat_raw_before_after(self._raw_before, self._raw_after, query, fmts,
                              "DropIndex", sql)

concat_drop_index(self, d, query, fmts) ==
  LET sql ==
        IF self._drop_index # <<>>
        THEN LET if_exists == IF self._if_exists
                              THEN KwIfExists \o fmts.space
                              ELSE <<>>
                 index_names ==
                   IF d = "postgresql"
                   THEN join(filter_non_empty(self._drop_index), fmts.comma)
                   ELSE self._drop_index[Len(self._drop_index)]
             IN  KwDropIndex \o fmts.space \o if_exists \o index_names
                   \o fmts.space \o fmts.lb
        ELSE <<>>
  IN  concat_raw_before_after(self._raw_before, self._raw_after, query, fmts,
                              "DropIndex", sql)

drop_index_concat(self, d, fmts) ==
  LET q0 == concat_raw(<<>>, fmts, self._raw)
      q1 == concat_drop_index(self, d, q0, fmts)
  IN  trim_end(q1)

drop_index_as_string(self, d) == drop_index_concat(self, d, one_line)

\* ------------------------------------------------------------------ state machine

NoText == << "<none>" >>

Call(op, clause, arg) == [op |-> op, clause |-> clause, arg |-> arg]

Start ==
  /\ dialect \in Dialects
  /\ ins = new
  /\ dix = drop_index_new
  /\ hist = <<>>
  /\ out = NoText
  /\ console = NoText

\* Insert is built under postgresql or sqlite: the build without a feature
\* has the Insert of the postgresql build less its returning method.
Init == kind = "Insert" /\ dialect \in {"postgresql", "sqlite"} /\ Start

\* a builder method of Insert: consumes the value and returns the changed one
Chain(c, next) ==
  /\ Len(hist) < MaxCalls
  /\ ins' = next
  /\ hist' = Append(hist, c)
  /\ UNCHANGED <<kind, dialect, dix, out, console>>

InsertInto ==
  \E t \in Tables :
    Chain(Call("insert_into", "InsertInto", t),
          IF dialect = "sqlite" THEN insert_into_sqlite(ins, t)
                                ELSE insert_into(ins, t))

InsertOr ==
  /\ dialect = "sqlite"
  /\ \E t \in Expressions :
       Chain(Call("insert_or", "InsertInto", t), insert_or(ins, t))

ReplaceInto ==
  /\ dialect = "sqlite"
  /\ \E t \in Expressions :
       Chain(Call("replace_into", "InsertInto", t), replace_into(ins, t))

DefaultValues ==
  /\ dialect = "sqlite"
  /\ Chain(Call("default_values", "DefaultValues", <<>>), default_values(ins))

OnConflict ==
  \E t \in Conflicts :
    Chain(Call("on_conflict", "OnConflict", t), on_conflict(ins, t))

Overriding ==
  /\ dialect # "sqlite"
  /\ \E t \in Options :
       Chain(Call("overriding", "Overriding", t), overriding(ins, t))

Raw ==
  \E t \in Fragments : Chain(Call("raw", "Raw", t), raw(ins, t))

RawAfter ==
  \E cl \in InsertClauses, t \in Fragments :
    Chain(Call("raw_after", cl, t), raw_after(ins, cl, t))

RawBefore ==
  \E cl \in InsertClauses, t \in Fragments :
    Chain(Call("raw_before", cl, t), raw_before(ins, cl, t))

Values ==
  \E t \in Texts : Chain(Call("values", "Values", t), values(ins, t))

Returning ==
  /\ dialect \in {"postgresql", "sqlite"}
  /\ \E t \in Fragments : Chain(Call("returning", "Returning", t), returning(ins, t))

AsString ==
  /\ Len(hist) < MaxCalls
  /\ out' = as_string(ins, dialect)
  /\ hist' = Append(hist, Call("as_string", "", <<>>))
  /\ UNCHANGED <<kind, dialect, ins, dix, console>>

\* faulty variant of Debug: the printed statement is taken, an empty one returned
DebugTakes ==
  /\ Len(hist) < MaxCalls
  /\ console' = debug(ins, dialect)
  /\ ins' = new
  /\ hist' = Append(hist, Call("debug", "", <<>>))
  /\ UNCHANGED <<kind, dialect, dix, out>>

Debug ==
  /\ Len(hist) < MaxCalls
  /\ console' = debug(ins, dialect)
  /\ hist' = Append(hist, Call("debug", "", <<>>))
  /\ UNCHANGED <<kind, dialect, ins, dix, out>>

PrintLine ==
  /\ Len(hist) < MaxCalls
  /\ console' = print(ins, dialect)
  /\ hist' = Append(hist, Call("print", "", <<>>))
  /\ UNCHANGED <<kind, dialect, ins, dix, out>>

Next ==
  \/ InsertInto \/ InsertOr \/ ReplaceInto \/ DefaultValues
  \/ OnConflict \/ Overriding
  \/ Raw \/ RawAfter \/ RawBefore
  \/ Values \/ Returning
  \/ AsString \/ Debug \/ PrintLine

Spec == Init /\ [][Next]_vars

\* --- the DropIndex builder

DropChain(c, next) ==
  /\ Len(hist) < MaxCalls
  /\ dix' = next
  /\ hist' = Append(hist, c)
  /\ UNCHANGED <<kind, dialect, ins, out, console>>

DropIndexName ==
  \E t \in Texts :
    DropChain(Call("drop_index", "DropIndex", t), drop_index(dix, t))

DropIndexIfExists ==
  \E t \in Texts :
    DropChain(Call("drop_index_if_exists", "DropIndex", t),
              drop_index_if_exists(dix, t))

DropIndexRaw ==
  \E t \in Fragments : DropChain(Call("raw", "Raw", t), drop_index_raw(dix, t))

DropIndexRawAfter ==
  \E t \in Fragments :
    DropChain(Call("raw_after", "DropIndex", t),
              drop_index_raw_after(dix, "DropIndex", t))

DropIndexRawBefore ==
  \E t \in Fragments :
    DropChain(Call("raw_before", "DropIndex", t),
              drop_index_raw_before(dix, "DropIndex", t))

DropIndexAsString ==
  /\ Len(hist) < MaxCalls
  /\ out' = drop_index_as_string(dix, dialect)
  /\ hist' = Append(hist, Call("as_string", "", <<>>))
  /\ UNCHANGED <<kind, dialect, ins, dix, console>>

NextDropIndex ==
  \/ DropIndexName \/ DropIndexIfExists
  \/ DropIndexRaw \/ DropIndexRawAfter \/ DropIndexRawBefore
  \/ DropIndexAsString

InitDropIndex == kind = "DropIndex" /\ Start

SpecDropIndex == InitDropIndex /\ [][NextDropIndex]_vars

\* --- either statement kind

InitAny == Init \/ InitDropIndex

NextAny ==
  \/ kind = "Insert" /\ Next
  \/ kind = "DropIndex" /\ NextDropIndex

SpecAny == InitAny /\ [][NextAny]_vars

\* ------------------------------------------------------------------ call sequences

\* The Insert reached from `self` by one more call of the chain.
ApplyCall(self, d, c) ==
  CASE c.op = "insert_into"    -> IF d = "sqlite" THEN insert_into_sqlite(self, c.arg)
                                                  ELSE insert_into(self, c.arg)
    [] c.op = "insert_or"      -> insert_or(self, c.arg)
    [] c.op = "replace_into"   -> replace_into(self, c.arg)
    [] c.op = "default_values" -> default_values(self)
    [] c.op = "on_conflict"    -> on_conflict(self, c.arg)
    [] c.op = "overriding"     -> overriding(self, c.arg)
    [] c.op = "raw"            -> raw(self, c.arg)
    [] c.op = "raw_after"      -> raw_after(self, c.clause, c.arg)
    [] c.op = "raw_before"     -> raw_before(self, c.clause, c.arg)
    [] c.op = "values"         -> values(self, c.arg)
    [] c.op = "returning"      -> returning(self, c.arg)
    [] OTHER                   -> self

RECURSIVE ReplayFrom(_, _, _, _)
ReplayFrom(self, calls, d, i) ==
  IF i > Len(calls) THEN self
  ELSE ReplayFrom(ApplyCall(self, d, calls[i]), calls, d, i + 1)

\* Insert::new() followed by the calls of `calls`, in order.
Replay(calls, d) == ReplayFrom(new, calls, d, 1)

RenderOps == {"as_string", "debug", "print"}

\* Position of the first occurrence of `sub` in `s`, 0 when there is none.
RECURSIVE FindFrom(_, _, _)
FindFrom(s, sub, i) ==
  IF i + Len(sub) - 1 > Len(s) THEN 0
  ELSE IF SubSeq(s, i, i + Len(sub) - 1) = sub THEN i
  ELSE FindFrom(s, sub, i + 1)

Find(s, sub) == FindFrom(s, sub, 1)

Occurrences(s, sub) ==
  Cardinality({ i \in 1..(Len(s) - Len(sub) + 1) : SubSeq(s, i, i + Len(sub) - 1) = sub })

\* The calls of `calls` whose method is in `ops`, in call order.
CallsOf(calls, ops) == SelectSeq(calls, LAMBDA c : c.op \in ops)

\* The trimmed arguments of a sequence of calls.
TrimmedArgs(calls) == [i \in 1..Len(calls) |-> trim(calls[i].arg)]

Distinct(items) ==
  \A i, j \in 1..Len(items) : i # j => items[i] # items[j]

\* ------------------------------------------------------------------ claims

\* The place of a call's clause in a fixed order of the clauses.  Calls that
\* write the same storage are calls to the same clause and have the same
\* rank; the injections before (after) one clause are a clause of their own.
Rank(c) ==
  CASE c.op = "raw"                                -> 1
    [] c.op \in {"insert_into", "insert_or", "replace_into"} -> 2
    [] c.op = "raw_before" /\ c.clause = "InsertInto" -> 3
    [] c.op = "raw_after" /\ c.clause = "InsertInto"  -> 4
    [] c.op = "values"                             -> 5
    [] c.op = "default_values"                     -> 6
    [] c.op = "raw_before" /\ c.clause = "Values"  -> 7
    [] c.op = "raw_after" /\ c.clause = "Values"   -> 8
    [] c.op = "on_conflict"                        -> 9
    [] c.op = "overriding"                         -> 10
    [] c.op = "returning"                          -> 11
    [] OTHER                                       -> 12

\* `sorted` with call c put behind every call whose clause does not come later
RECURSIVE PutIn(_, _, _)
PutIn(sorted, c, r) ==
  IF sorted = <<>> \/ Rank(sorted[Len(sorted)]) <= r THEN Append(sorted, c)
  ELSE Append(PutIn(SubSeq(sorted, 1, Len(sorted) - 1), c, r), sorted[Len(sorted)])

\* `calls` grouped by clause in the order of Rank, the calls to one clause
\* keeping their relative order (a stable sort): every permutation of `calls`
\* that keeps the relative order of the calls to each clause has the same
\* Canonical form.
RECURSIVE Canonical(_)
Canonical(calls) ==
  IF calls = <<>> THEN <<>>
  ELSE PutIn(Canonical(SubSeq(calls, 1, Len(calls) - 1)),
             calls[Len(calls)], Rank(calls[Len(calls)]))

\* The table expression an INSERT INTO clause is rendered from.
IntoText(self, d) ==
  IF d = "sqlite"
  THEN IF self._insert[1] = "InsertInto" THEN self._insert[2] ELSE <<>>
  ELSE self._insert_into

\* C1: the text as_string() returns does not depend on the order in which the
\* methods of different clauses were called: the chain renders what its
\* Canonical reordering renders, and INSERT INTO comes before VALUES.
C1_OrderIndependent ==
  kind = "Insert" =>
    LET text  == as_string(ins, dialect)
        canon == Canonical(hist)
    IN  /\ canon # hist => text = as_string(Replay(canon, dialect), dialect)
        /\ (IntoText(ins, dialect) # <<>> /\ ins._values # <<>>) =>
             /\ 0 < Find(text, KwInsertInto)
             /\ Find(text, KwInsertInto) < Find(text, KwValues)

C1_Witness ==
  /\ Len(hist) = 2
  /\ hist[1].op = "values" /\ hist[2].op = "insert_into"
  /\ Canonical(hist) # hist
  /\ as_string(ins, dialect) = KwInsertInto \o <<" ", "b", " ">> \o KwValues \o <<" ", "a">>

ValuesCalls == CallsOf(hist, {"values"})

\* the VALUES clause that lists v1, ..., vn comma-joined (no clause when there
\* is nothing to list)
ValuesClause(vs) ==
  IF join(vs, <<",", " ">>) = <<>> THEN <<>>
  ELSE KwValues \o <<" ">> \o join(vs, <<",", " ">>)

\* the VALUES clause of the statement, rendered alone
RenderedValues(self, d) == as_string([new EXCEPT !._values = self._values], d)

MultiValuedOps == {"values", "returning", "raw"}

\* Call i of `calls` repeats an earlier call: same multi-valued method, same
\* trimmed text.
IsRepeat(calls, i) ==
  /\ calls[i].op \in MultiValuedOps
  /\ \E j \in 1..(i - 1) :
       calls[j].op = calls[i].op /\ trim(calls[j].arg) = trim(calls[i].arg)

RECURSIVE DropRepeatsFrom(_, _)
DropRepeatsFrom(calls, i) ==
  IF i > Len(calls) THEN <<>>
  ELSE (IF IsRepeat(calls, i) THEN <<>> ELSE <<calls[i]>>) \o DropRepeatsFrom(calls, i + 1)

DropRepeats(calls) == DropRepeatsFrom(calls, 1)

\* C3: a call of values, returning or raw with a text that an earlier call
\* already stored changes nothing: the statement (every stored list, and so
\* the rendering) is the one the chain without the repeated calls builds.
C3_Idempotent ==
  kind = "Insert" =>
    ins = Replay(DropRepeats(hist), dialect)

C3_Witness ==
  /\ Len(hist) = 3
  /\ hist[1].op = "values" /\ hist[2].op = "insert_into" /\ hist[3] = hist[1]
  /\ ins._values = << <<"a">> >>
  /\ DropRepeats(hist) = SubSeq(hist, 1, 2)

IntoOps == {"insert_into", "insert_or", "replace_into"}

\* `calls` without the calls of the INSERT INTO clause that a later one overrode
RECURSIVE KeepLastIntoFrom(_, _)
KeepLastIntoFrom(calls, i) ==
  IF i > Len(calls) THEN <<>>
  ELSE (IF calls[i].op \in IntoOps /\ \E j \in (i + 1)..Len(calls) : calls[j].op \in IntoOps
        THEN <<>> ELSE <<calls[i]>>) \o KeepLastIntoFrom(calls, i + 1)

KeepLastInto(calls) == KeepLastIntoFrom(calls, 1)

\* C4: insert_into overrides: the statement is the one built without the
\* earlier calls of the clause, and when the most recent call of the clause is
\* insert_into(t) with a non-blank t the output holds exactly one INSERT INTO
\* clause, "INSERT INTO " followed by the trimmed t.
C4_InsertIntoOverrides ==
  (kind = "Insert" /\ CallsOf(hist, IntoOps) # <<>>) =>
    LET into == CallsOf(hist, IntoOps)
        last == into[Len(into)]
        text == as_string(ins, dialect)
    IN  /\ ins = Replay(KeepLastInto(hist), dialect)
        /\ last.op = "insert_into" =>
             /\ IntoText(ins, dialect) = trim(last.arg)
             /\ IF trim(last.arg) = <<>>
                THEN Occurrences(text, KwInsertInto) = 0
                ELSE /\ Occurrences(text, KwInsertInto) = 1
                     /\ Find(text, KwInsertInto \o <<" ">> \o trim(last.arg)) > 0

C4_Witness ==
  /\ Len(hist) = 3
  /\ hist[1] = Call("insert_into", "InsertInto", <<" ", "a", " ">>)
  /\ hist[2] = Call("insert_into", "InsertInto", <<"b">>)
  /\ hist[3].op = "as_string"
  /\ out = KwInsertInto \o <<" ", "b">>

\* --- C5

\* The clauses the assembler of Insert walks, in its fixed order.
ClauseOrder(d) ==
  <<"InsertInto", "Values", "OnConflict">>
    \o (IF d # "sqlite" THEN <<"Overriding">> ELSE <<>>)
    \o (IF d # "standard" THEN <<"Returning">> ELSE <<>>)

NoInjections(self) == [self EXCEPT !._raw_before = <<>>, !._raw_after = <<>>]

\* The rendered body of clause X: what the clause contributes without injections.
BodyOf(self, d, X) ==
  trim_end(
    CASE X = "InsertInto" -> concat_insert_into(NoInjections(self), d, <<>>, one_line)
      [] X = "Values"     -> concat_values(NoInjections(self), <<>>, one_line)
      [] X = "OnConflict" -> concat_on_conflict(NoInjections(self), <<>>, one_line)
      [] X = "Overriding" -> concat_overriding(NoInjections(self), <<>>, one_line)
      [] X = "Returning"  -> concat_returning(NoInjections(self), <<>>, one_line)
      [] X = "DropIndex"  -> concat_drop_index(NoInjections(self), d, <<>>, one_line))

\* For clause X: the non-empty texts injected before it, its body if it has
\* one, the non-empty texts injected after it.
SegmentPieces(self, d, X) ==
  filter_non_empty(raw_queries(self._raw_before, X))
    \o (IF BodyOf(self, d, X) # <<>> THEN <<BodyOf(self, d, X)>> ELSE <<>>)
    \o filter_non_empty(raw_queries(self._raw_after, X))

RECURSIVE PiecesFrom(_, _, _, _)
PiecesFrom(self, d, order, k) ==
  IF k > Len(order) THEN <<>>
  ELSE SegmentPieces(self, d, order[k]) \o PiecesFrom(self, d, order, k + 1)

\* C5: in one-line mode an injected text sits next to the body of its clause,
\* before it for raw_before and after it for raw_after, one space apart; an
\* empty body or an empty injected text leaves no separator behind: the
\* output is the non-empty pieces joined by single spaces.
C5_InjectionPlacement ==
  /\ kind = "Insert" =>
       as_string(ins, dialect)
         = join(ins._raw \o PiecesFrom(ins, dialect, ClauseOrder(dialect), 1), <<" ">>)
  /\ kind = "DropIndex" =>
       drop_index_as_string(dix, dialect)
         = join(dix._raw \o SegmentPieces(dix, dialect, "DropIndex"), <<" ">>)

\* --- C6

NameCalls == CallsOf(hist, {"drop_index", "drop_index_if_exists"})

\* The index names added by `calls`, in the order they were added.
RECURSIVE AddedNames(_)
AddedNames(calls) ==
  IF calls = <<>> THEN <<>>
  ELSE LET before == AddedNames(SubSeq(calls, 1, Len(calls) - 1))
           name   == trim(calls[Len(calls)].arg)
       IN  IF name = <<>> \/ Contains(before, name) THEN before
           ELSE Append(before, name)

ExpectedDropIndex(calls, if_exists, d) ==
  LET names == AddedNames(calls)
      guard == IF if_exists THEN KwIfExists \o <<" ">> ELSE <<>>
  IN  IF names = <<>> THEN <<>>
      ELSE KwDropIndex \o <<" ">> \o guard
             \o (IF d = "postgresql" THEN join(names, <<",", " ">>)
                 ELSE names[Len(names)])

\* C6: the DROP INDEX clause lists every added index name comma-joined in call
\* order under postgresql, and only the most recently added name under every
\* other dialect; the dialect alone selects which.
C6_DialectDivergence ==
  kind = "DropIndex" =>
    /\ drop_index_as_string([NoInjections(dix) EXCEPT !._raw = <<>>], dialect)
         = ExpectedDropIndex(NameCalls, dix._if_exists, dialect)
    /\ Find(drop_index_as_string(dix, dialect), ExpectedDropIndex(NameCalls, dix._if_exists, dialect)) > 0

C6_Witness ==
  /\ dialect # "postgresql"
  /\ Len(hist) = 3
  /\ hist[1] = Call("drop_index", "DropIndex", <<" ", "a", " ">>)
  /\ hist[2] = Call("drop_index", "DropIndex", <<"b">>)
  /\ hist[3].op = "as_string"
  /\ out = KwDropIndex \o <<" ", "b">>

\* --- C7

BlankCall(c) == c.op \in {"values", "returning"} /\ trim(c.arg) = <<>>

AllBlank(calls) == \A i \in 1..Len(calls) : trim(calls[i].arg) = <<>>

C8_RenderIsPureRead ==
  kind = "Insert" =>
    LET built == SelectSeq(hist, LAMBDA c : c.op \notin RenderOps)
    IN  /\ ins = Replay(built, dialect)
        /\ (hist # <<>> /\ hist[Len(hist)].op = "as_string")
             => out = as_string(Replay(built, dialect), dialect)

C8_Witness ==
  /\ Len(hist) = 3
  /\ hist[1].op = "insert_into"
  /\ hist[2].op \in {"debug", "print"}
  /\ hist[3].op = "as_string"
  /\ out = KwInsertInto \o <<" ", "b">>
  /\ console # NoText

\* --- C9

\* C9: a statement on which no builder method was called renders to the empty
\* string in one-line and in multi-line mode.
C9_FreshIsEmpty ==
  (kind = "Insert" /\ SelectSeq(hist, LAMBDA c : c.op \notin RenderOps) = <<>>) =>
    /\ as_string(ins, dialect) = <<>>
    /\ concat(ins, dialect, multiline) = <<>>
    /\ out \in {NoText, <<>>}
    /\ console \in {NoText, <<>>}

C9_Witness ==
  /\ Len(hist) = 2
  /\ hist[1].op = "as_string" /\ hist[2].op = "debug"
  /\ out = <<>> /\ console = <<>>

\* --- C10

\* the (clause, trimmed text) pairs of a sequence of injection calls
Pairs(calls) == [i \in 1..Len(calls) |-> <<calls[i].clause, trim(calls[i].arg)>>]

\* C10: each ledger is the sequence of (clause, trimmed text) pairs of its
\* calls in call order, repeated pairs included, and the texts injected for
\* one clause are rendered in that order.
C10_LedgerKeepsCallOrder ==
  kind = "Insert" =>
    /\ ins._raw_before = Pairs(CallsOf(hist, {"raw_before"}))
    /\ ins._raw_after = Pairs(CallsOf(hist, {"raw_after"}))
    /\ LET text == as_string(ins, dialect)
       IN  \A X \in InsertClauses :
             /\ Find(text, trim_end(join(raw_queries(ins._raw_before, X), <<" ">>))) > 0
             /\ Find(text, trim_end(join(raw_queries(ins._raw_after, X), <<" ">>))) > 0

C10_Witness ==
  /\ Len(hist) = 3
  /\ \A i \in 1..3 : hist[i].op = "raw_before" /\ hist[i].clause = "Values"
  /\ hist[1] # hist[2] /\ hist[2] = hist[3]
  /\ ins._raw_before = << <<"Values", <<>>>>, <<"Values", <<"a">>>>, <<"Values", <<"a">>>> >>
  /\ as_string(ins, dialect) = <<" ", "a", " ", "a">>

====
